---- MODULE Spec2Model ----
(***************************************************************************)
(* Model of gymnax/environments/minatar/asterix.py: the Asterix MinAtar    *)
(* environment (reset, step, get_obs, spawn_entity, while_sample_slots,    *)
(* update_entities).                                                       *)
(*                                                                         *)
(* An entity is the 5-array of the source, written as a tuple with         *)
(* 1-based positions: <<x, y, lr, is_gold, filled>> = x[0..4].             *)
(* The state dict is a record with the same keys.                          *)
(*                                                                         *)
(* `x[0:2] == [player_x, player_y]` (lines 179, 211) is read as "both      *)
(* coordinates are equal", the scalar reading under which the following    *)
(* `x * (1 - collision_gold)` is well shaped.                              *)
(***************************************************************************)
EXTENDS Integers, Sequences, FiniteSets, TLC

VARIABLES params, state, prev, mid, out, held, script, budget

vars == <<params, state, prev, mid, out, held, script, budget>>

(* ------------------------------ bounds -------------------------------- *)
MaxSteps == 3
MaxWarm == 11
MaxMidSteps == 1
MaxCallSteps == 2
MaxWalkSteps == 6
MaxIdleSteps == 13

(* ------------------------- program constants -------------------------- *)
NumSlots == 8
ScanBound == 7
GridMax == 9
PlayerYMin == 1
PlayerYMax == 8
StartX == 5
StartY == 5

Slots == 0..(NumSlots - 1)

(* booleans used as 0/1 factors, as in the source's masked sums *)
B2I(b) == IF b THEN 1 ELSE 0
Max2(a, b) == IF a >= b THEN a ELSE b
Min2(a, b) == IF a <= b THEN a ELSE b

(* x * k for a 5-array x and a scalar k *)
Scale(e, k) == [j \in 1..5 |-> e[j] * k]

ZeroEntity == <<0, 0, 0, 0, 0>>

(* Reset as it would be if the spawn countdown started elapsed *)
Reset_SpawnTimerZero(p) ==
    [player_x |-> StartX,
     player_y |-> StartY,
     shot_timer |-> 0,
     spawn_speed |-> p.init_spawn_speed,
     spawn_timer |-> 0,
     move_speed |-> p.init_move_interval,
     move_timer |-> p.init_move_interval,
     ramp_timer |-> p.ramp_interval,
     ramp_index |-> 0,
     entities |-> [i \in 0..(NumSlots - 1) |-> ZeroEntity]]

(* ------------------------------ reset --------------------------------- *)
Reset(p) ==
    [player_x |-> StartX,
     player_y |-> StartY,
     shot_timer |-> 0,
     spawn_speed |-> p.init_spawn_speed,
     spawn_timer |-> p.init_spawn_speed,
     move_speed |-> p.init_move_interval,
     move_timer |-> p.init_move_interval,
     ramp_timer |-> p.ramp_interval,
     ramp_index |-> 0,
     entities |-> [i \in Slots |-> ZeroEntity]]

(* ------------------------------ spawner ------------------------------- *)
(* The while_loop of while_sample_slots: val = <<counter, free>>.  The    *)
(* drawn permutation `order` is computed by the source but never read.    *)
RECURSIVE WhileLoop(_, _)
WhileLoop(val, state_entities) ==
    IF val[1] < ScanBound /\ val[2] = 0
    THEN WhileLoop(<<val[1] + 1, B2I(state_entities[val[1] + 1] = 0)>>,
                   state_entities)
    ELSE val

WhileSampleSlots(order, state_entities) == WhileLoop(<<0, 0>>, state_entities)

(* the spawn as it would be if the row were the slot number itself *)
SpawnEntity_RowIsSlot(draw, st) ==
    LET x == (1 - draw.lr) * GridMax
        state_entities == [i \in Slots |-> st.entities[i][5]]
        sf == WhileSampleSlots(draw.order, state_entities)
        slot == sf[1]
        free == sf[2]
    IN <<(<<x, slot, draw.lr, draw.is_gold, free>>), slot>>

(* the spawn as it would be if the start column were taken from the     *)
(* other side                                                            *)
SpawnEntity_OtherSide(draw, st) ==
    LET x == draw.lr * GridMax
        state_entities == [i \in Slots |-> st.entities[i][5]]
        sf == WhileSampleSlots(draw.order, state_entities)
        slot == sf[1]
        free == sf[2]
    IN <<(<<x, slot + 1, draw.lr, draw.is_gold, free>>), slot>>

(* draw = [lr, is_gold, order]; returns <<entity, slot>> *)
SpawnEntity(draw, st) ==
    LET x == (1 - draw.lr) * GridMax
        state_entities == [i \in Slots |-> st.entities[i][5]]
        sf == WhileSampleSlots(draw.order, state_entities)
        slot == sf[1]
        free == sf[2]
    IN <<(<<x, slot + 1, draw.lr, draw.is_gold, free>>), slot>>

(* the commit as it would be if the spawn were written on every step *)
SpawnCommit_AlwaysCommits(st, draw) ==
    LET es == SpawnEntity(draw, st)
        updated == [st.entities EXCEPT ![es[2]] = es[1]]
        z == B2I(st.spawn_timer = 0)
        g == B2I(st.spawn_timer > 0)
    IN [st EXCEPT
          !.entities = updated,
          !.spawn_timer = z * st.spawn_speed + g * st.spawn_timer]

(* lines 34-40: the masked commit of the spawn and the timer reset *)
SpawnCommit(st, draw) ==
    LET es == SpawnEntity(draw, st)
        updated == [st.entities EXCEPT ![es[2]] = es[1]]
        z == B2I(st.spawn_timer = 0)
        g == B2I(st.spawn_timer > 0)
    IN [st EXCEPT
          !.entities = [i \in Slots |->
                          [j \in 1..5 |-> z * updated[i][j]
                                          + g * st.entities[i][j]]],
          !.spawn_timer = z * st.spawn_speed + g * st.spawn_timer]

(* --------------------------- player movement -------------------------- *)
(* PlayerX as it would be without the clamp at the right wall *)
PlayerX_NoClamp(x, action) ==
    Max2(0, x - 1) * B2I(action = 0)
    + (x + 1) * B2I(action = 2)
    + x * B2I(action # 0 /\ action # 2)

PlayerX(x, action) ==
    Max2(0, x - 1) * B2I(action = 0)
    + Min2(GridMax, x + 1) * B2I(action = 2)
    + x * B2I(action # 0 /\ action # 2)

(* PlayerY as it would be if only the horizontal codes kept the row *)
PlayerY_KeepOnlyOnHorizontal(y, action) ==
    Max2(PlayerYMin, y - 1) * B2I(action = 1)
    + Min2(PlayerYMax, y + 1) * B2I(action = 3)
    + y * B2I(action = 0 \/ action = 2)

PlayerY(y, action) ==
    Max2(PlayerYMin, y - 1) * B2I(action = 1)
    + Min2(PlayerYMax, y + 1) * B2I(action = 3)
    + y * B2I(action # 1 /\ action # 3)

MovePlayer(st, action) ==
    [st EXCEPT !.player_x = PlayerX(st.player_x, action),
               !.player_y = PlayerY(st.player_y, action)]

(* ----------------------- collision and movement ----------------------- *)
(* lines 178-180 and 210-212 *)
Collision(x, px, py, slot_filled) ==
    (x[1] = px /\ x[2] = py) /\ slot_filled

(* the first loop's body as it would be if a collected treasure were    *)
(* left in its slot                                                      *)
PassABody_KeepsTreasure(acc, i, px, py) ==
    LET x == acc.entities[i]
        slot_filled == (x[5] # 0)
        collision == Collision(x, px, py, slot_filled)
        collision_gold == collision /\ (x[4] # 0)
        collision_enemy == collision /\ ((1 - x[4]) # 0)
    IN [entities |-> acc.entities,
        reward |-> acc.reward + B2I(collision_gold),
        done |-> collision_enemy]

(* one iteration of the first loop (lines 176-188); acc = [entities,     *)
(* reward, done]                                                          *)
PassABody(acc, i, px, py) ==
    LET x == acc.entities[i]
        slot_filled == (x[5] # 0)
        collision == Collision(x, px, py, slot_filled)
        collision_gold == collision /\ (x[4] # 0)
        collision_enemy == collision /\ ((1 - x[4]) # 0)
    IN [entities |-> [acc.entities EXCEPT
                        ![i] = Scale(x, 1 - B2I(collision_gold))],
        reward |-> acc.reward + B2I(collision_gold),
        done |-> collision_enemy]

RECURSIVE PassA(_, _, _, _)
PassA(acc, i, px, py) ==
    IF i = NumSlots THEN acc
    ELSE PassA(PassABody(acc, i, px, py), i + 1, px, py)

(* line 199-201: the moved x[0] *)
MovedX(x, slot_filled) ==
    B2I(slot_filled) * (x[1] + 1 * x[3] - 1 * (1 - x[3]))
    + (1 - B2I(slot_filled)) * x[1]

(* lines 205-207 and 216-217: the two writes of slot i in the second     *)
(* loop, in program order; the value left in the slot is the last one.   *)
PassBWrite(x, slot_filled, outside_of_frame, collision_gold) ==
    LET first == Scale(x, B2I(slot_filled) * (1 - B2I(outside_of_frame)))
        second == Scale(x, 1 - B2I(collision_gold))
    IN second

(* the second loop's body as it would be without line 215 *)
PassBBody_NoReward(acc, i, px, py) ==
    LET x0 == acc.entities[i]
        slot_filled == (x0[5] # 0)
        x == [x0 EXCEPT ![1] = MovedX(x0, slot_filled)]
        outside_of_frame == (x[1] < 0 \/ x[1] > GridMax)
        collision == Collision(x, px, py, slot_filled)
        collision_gold == collision /\ (x[4] # 0)
        collision_enemy == collision /\ ((1 - x[4]) # 0)
    IN [entities |-> [acc.entities EXCEPT
                        ![i] = PassBWrite(x, slot_filled, outside_of_frame,
                                          collision_gold)],
        reward |-> acc.reward,
        done |-> collision_enemy]

(* one iteration of the second loop (lines 195-220) *)
PassBBody(acc, i, px, py) ==
    LET x0 == acc.entities[i]
        slot_filled == (x0[5] # 0)
        x == [x0 EXCEPT ![1] = MovedX(x0, slot_filled)]
        outside_of_frame == (x[1] < 0 \/ x[1] > GridMax)
        collision == Collision(x, px, py, slot_filled)
        collision_gold == collision /\ (x[4] # 0)
        collision_enemy == collision /\ ((1 - x[4]) # 0)
    IN [entities |-> [acc.entities EXCEPT
                        ![i] = PassBWrite(x, slot_filled, outside_of_frame,
                                          collision_gold)],
        reward |-> acc.reward + B2I(collision_gold),
        done |-> collision_enemy]

RECURSIVE PassB(_, _, _, _)
PassB(acc, i, px, py) ==
    IF i = NumSlots THEN acc
    ELSE PassB(PassBBody(acc, i, px, py), i + 1, px, py)

(* update_entities: returns [state, reward, done] *)
UpdateEntities(st) ==
    LET a == PassA([entities |-> st.entities, reward |-> 0, done |-> FALSE],
                   0, st.player_x, st.player_y)
        time_to_move == B2I(st.move_timer = 0)
        move_timer == time_to_move * st.move_speed
                      + (1 - time_to_move) * st.move_speed
        b == PassB(a, 0, st.player_x, st.player_y)
    IN [state |-> [st EXCEPT !.entities = b.entities,
                             !.move_timer = move_timer],
        reward |-> b.reward,
        done |-> b.done]

(* --------------------------- difficulty ramp -------------------------- *)
(* the ramp as it would be if only spawn_speed kept it active *)
Ramp_SpawnSpeedOnly(p, st) ==
    LET ramp_cond == (p.ramping # 0) /\ st.spawn_speed > 1
        timer_cond == ramp_cond /\ st.ramp_timer >= 0
        event == ramp_cond /\ ~timer_cond
        move_speed_cond == event
                           /\ (st.move_speed # 0 /\ st.ramp_index % 2 # 0)
        spawn_speed_cond == event /\ st.spawn_speed > 1
    IN [st EXCEPT
          !.ramp_timer = B2I(timer_cond) * (st.ramp_timer - 1)
                         + (1 - B2I(timer_cond)) * p.ramp_interval,
          !.move_speed = st.move_speed - B2I(move_speed_cond),
          !.spawn_speed = st.spawn_speed - B2I(spawn_speed_cond),
          !.ramp_index = st.ramp_index + B2I(event)]

(* the ramp as it would be if move_speed ramped on even indices *)
Ramp_EvenIndex(p, st) ==
    LET ramp_cond == (p.ramping # 0)
                     /\ (st.spawn_speed > 1 \/ st.move_speed > 1)
        timer_cond == ramp_cond /\ st.ramp_timer >= 0
        event == ramp_cond /\ ~timer_cond
        move_speed_cond == event
                           /\ (st.move_speed # 0 /\ st.ramp_index % 2 = 0)
        spawn_speed_cond == event /\ st.spawn_speed > 1
    IN [st EXCEPT
          !.ramp_timer = B2I(timer_cond) * (st.ramp_timer - 1)
                         + (1 - B2I(timer_cond)) * p.ramp_interval,
          !.move_speed = st.move_speed - B2I(move_speed_cond),
          !.spawn_speed = st.spawn_speed - B2I(spawn_speed_cond),
          !.ramp_index = st.ramp_index + B2I(event)]

(* lines 64-82 *)
Ramp(p, st) ==
    LET ramp_cond == (p.ramping # 0)
                     /\ (st.spawn_speed > 1 \/ st.move_speed > 1)
        timer_cond == ramp_cond /\ st.ramp_timer >= 0
        event == ramp_cond /\ ~timer_cond
        move_speed_cond == event
                           /\ (st.move_speed # 0 /\ st.ramp_index % 2 # 0)
        spawn_speed_cond == event /\ st.spawn_speed > 1
    IN [st EXCEPT
          !.ramp_timer = B2I(timer_cond) * (st.ramp_timer - 1)
                         + (1 - B2I(timer_cond)) * p.ramp_interval,
          !.move_speed = st.move_speed - B2I(move_speed_cond),
          !.spawn_speed = st.spawn_speed - B2I(spawn_speed_cond),
          !.ramp_index = st.ramp_index + B2I(event)]

(* ------------------------------- step --------------------------------- *)
(* lines 60-61 *)
DecTimers(st) ==
    [st EXCEPT !.spawn_timer = st.spawn_timer - 1,
               !.move_timer = st.move_timer - 1]

(* step: returns [state, reward, done, mid]; mid is the entity table      *)
(* after the spawn commit of lines 34-38                                  *)
StepFn(p, st, action, draw) ==
    LET s1 == SpawnCommit(st, draw)
        s2 == MovePlayer(s1, action)
        u == UpdateEntities(s2)
        s3 == DecTimers(u.state)
        s4 == Ramp(p, s3)
    IN [state |-> s4, reward |-> u.reward, done |-> u.done,
        mid |-> s1.entities]

(* ---------------------------- observation ----------------------------- *)
(* An observation is the set of true cells <<row, col, channel>>.        *)
(* index_update with a negative index counts from the end; an index      *)
(* still outside the array drops the update.                             *)
NormIdx(i, size) == IF i < 0 THEN i + size ELSE i

IndexUpdate(obs, r, c, ch, v) ==
    LET rr == NormIdx(r, GridMax + 1)
        cc == NormIdx(c, GridMax + 1)
    IN IF rr \in 0..GridMax /\ cc \in 0..GridMax
       THEN IF v THEN obs \cup {<<rr, cc, ch>>} ELSE obs \ {<<rr, cc, ch>>}
       ELSE obs

(* one iteration of the loop of get_obs (lines 114-124) *)
ObsBody(obs, x) ==
    LET c == 3 * x[4] + 1 * (1 - x[4])
        c_eff == c * x[5] + 4 * (1 - x[5])
        o1 == IndexUpdate(obs, x[2], x[1], c_eff, TRUE)
        back_x == (x[1] - 1) * x[3] + (x[1] + 1) * (1 - x[3])
        leave_trail == (back_x >= 0 /\ back_x <= GridMax)
        t_eff == 2 * x[5] + 4 * (1 - x[5])
    IN IndexUpdate(o1, x[2], back_x, t_eff, leave_trail)

RECURSIVE ObsLoop(_, _, _)
ObsLoop(obs, entities, i) ==
    IF i = NumSlots THEN obs
    ELSE ObsLoop(ObsBody(obs, entities[i]), entities, i + 1)

GetObs(st) ==
    LET o0 == IndexUpdate({}, st.player_y, st.player_x, 0, TRUE)
        o == ObsLoop(o0, st.entities, 0)
    IN {cell \in o : cell[3] < 4}

(* ------------------------- inputs of the model ------------------------ *)
(* action codes: the four directions and two codes outside {0,1,2,3} *)
Actions == {-1, 0, 1, 2, 3, 4}

(* a permutation jax.random.permutation can return *)
Orders == {<<0, 1, 2, 3, 4, 5, 6, 7>>}

Draws == [lr : {0, 1}, is_gold : {0, 1}, order : Orders]

Cfg(ramping, ramp_interval, init_spawn_speed, init_move_interval) ==
    [ramping |-> ramping, ramp_interval |-> ramp_interval,
     init_spawn_speed |-> init_spawn_speed,
     init_move_interval |-> init_move_interval]

Configs ==
    {Cfg(1, 0, 1, 1), Cfg(1, 0, 2, 2), Cfg(1, 1, 1, 2),
     Cfg(0, 1, 1, 1), Cfg(0, 0, 2, 1)}

MidConfigs == {Cfg(0, 1, 1, 1)}

(* ------------------------------ actions ------------------------------- *)
(* params, state: the config and the state the driver holds.             *)
(* prev, mid, out: the state passed to the last call, the entity table   *)
(* after its spawn commit, and what it returned.                         *)
(* held: the contents, after the call, of the dict object that was       *)
(* passed to it.                                                         *)
(* script: the opening of a scripted driver (see ScriptedStep).          *)
(* budget: the number of free calls the driver may still make.           *)
NoOp == 4

NoScript == [lead |-> 0, action |-> NoOp,
             draw |-> [lr |-> 0, is_gold |-> 0,
                       order |-> <<0, 1, 2, 3, 4, 5, 6, 7>>],
             t |-> 0]

AfterReset(p) ==
    [state |-> Reset(p), prev |-> Reset(p), mid |-> Reset(p).entities,
     out |-> [kind |-> "reset", action |-> 0, reward |-> 0, done |-> FALSE],
     held |-> Reset(p)]

(* a call of `entry` on state st; entry "step" is the plain function,    *)
(* which assigns into the dict it was given and returns that same dict;  *)
(* "step_asterix" is jit(step), which is handed a rebuilt dict and       *)
(* leaves the caller's untouched.                                        *)
AfterCall(entry, p, st, action, draw) ==
    LET r == StepFn(p, st, action, draw)
    IN [state |-> r.state, prev |-> st, mid |-> r.mid,
        out |-> [kind |-> "step", action |-> action,
                 reward |-> r.reward, done |-> r.done],
        held |-> IF entry = "step" THEN r.state ELSE st]

InitWith(p, sc, b) ==
    LET w == AfterReset(p)
    IN /\ params = p
       /\ state = w.state
       /\ prev = w.prev
       /\ mid = w.mid
       /\ out = w.out
       /\ held = w.held
       /\ script = sc
       /\ budget = b

Init == \E p \in Configs : InitWith(p, NoScript, MaxSteps)

Call(entry, action, draw) ==
    LET w == AfterCall(entry, params, state, action, draw)
    IN /\ state' = w.state
       /\ prev' = w.prev
       /\ mid' = w.mid
       /\ out' = w.out
       /\ held' = w.held
       /\ UNCHANGED params

StepAsterix ==
    /\ budget > 0
    /\ budget' = budget - 1
    /\ UNCHANGED script
    /\ \E action \in Actions, draw \in Draws :
          Call("step_asterix", action, draw)

StepPlain ==
    /\ budget > 0
    /\ budget' = budget - 1
    /\ UNCHANGED script
    /\ \E action \in Actions, draw \in Draws :
          Call("step", action, draw)

Next == StepAsterix

Spec == Init /\ [][Next]_vars

(* ---------- a driver that opens with a scripted run from reset -------- *)
(* The opening is a run of step_asterix from reset of at most MaxWarm    *)
(* calls: the first `lead` calls with one action, the following ones     *)
(* with the no-op code, all with the same draw.  After it the driver     *)
(* makes its free calls.                                                 *)
WarmActions == {1, 2}
MaxLead == 4

WarmDraws ==
    {[lr |-> 0, is_gold |-> 1, order |-> <<0, 1, 2, 3, 4, 5, 6, 7>>],
     [lr |-> 1, is_gold |-> 0, order |-> <<0, 1, 2, 3, 4, 5, 6, 7>>]}

Scripts ==
    [lead : 0..MaxLead, action : WarmActions, draw : WarmDraws, t : {0}]

ScriptedStep ==
    /\ budget = MaxMidSteps
    /\ script.t < MaxWarm
    /\ script' = [script EXCEPT !.t = script.t + 1]
    /\ UNCHANGED budget
    /\ Call("step_asterix",
            IF script.t < script.lead THEN script.action ELSE NoOp,
            script.draw)

InitMid == \E p \in MidConfigs, sc \in Scripts : InitWith(p, sc, MaxMidSteps)

NextMid == ScriptedStep \/ StepAsterix

SpecMid == InitMid /\ [][NextMid]_vars

(* ------------- a caller that uses both exported entry points ---------- *)
InitCall == \E p \in Configs : InitWith(p, NoScript, MaxCallSteps)

NextCall == StepPlain \/ StepAsterix

SpecCall == InitCall /\ [][NextCall]_vars

(* ------- a driver that tries every action while the draws repeat ------ *)
(* Every call passes a draw with the same lr and is_gold (kept in        *)
(* script.draw); the action codes are free.                              *)
WalkStep ==
    /\ budget > 0
    /\ budget' = budget - 1
    /\ UNCHANGED script
    /\ \E action \in Actions : Call("step_asterix", action, script.draw)

InitWalk ==
    \E p \in MidConfigs, d \in WarmDraws :
        InitWith(p, [NoScript EXCEPT !.draw = d], MaxWalkSteps)

NextWalk == WalkStep

SpecWalk == InitWalk /\ [][NextWalk]_vars

(* ---------- a driver that idles while the same draw repeats ----------- *)
(* Every call passes the no-op code and the draw kept in script.draw,    *)
(* whose permutation is one of IdleOrders; the configs cover ramping on  *)
(* and off, and speeds at and above their floors.                        *)
IdleOrders ==
    {<<0, 1, 2, 3, 4, 5, 6, 7>>, <<7, 6, 5, 4, 3, 2, 1, 0>>,
     <<3, 0, 7, 1, 5, 2, 6, 4>>}

IdleDraws == [lr : {0, 1}, is_gold : {0, 1}, order : IdleOrders]

IdleConfigs ==
    {Cfg(r, ri, s, m) : r \in {0, 1}, ri \in {0, 1},
                        s \in {1, 2, 3, 5}, m \in {1, 2}}

IdleStep ==
    /\ budget > 0
    /\ budget' = budget - 1
    /\ UNCHANGED script
    /\ Call("step_asterix", NoOp, script.draw)

InitIdle ==
    \E p \in IdleConfigs, d \in IdleDraws :
        InitWith(p, [NoScript EXCEPT !.draw = d], MaxIdleSteps)

NextIdle == IdleStep

SpecIdle == InitIdle /\ [][NextIdle]_vars

(* The idling driver keeps calling as long as it may.  A call is total,  *)
(* so IdleStep is enabled exactly when TakesCall is, and the steps that  *)
(* change budget are the IdleStep steps.                                 *)
TakesCall == budget > 0 /\ budget' = budget - 1

SpecIdleFair == SpecIdle /\ WF_budget(TakesCall)

(* ===================== reference notions for the claims =============== *)
(* They speak of the last call only: prev is the state it was given, mid *)
(* the table its spawn phase left, state and out what it returned.  The  *)
(* player does not move after its action, so state.player_x/y is the     *)
(* post-action position both passes compare with.                        *)
Stepped == out.kind = "step"

IsActive(e) == e[5] # 0
IsTreasure(e) == e[4] # 0
AtPlayer(ex, ey) == ex = state.player_x /\ ey = state.player_y
NextX(e) == IF e[3] = 1 THEN e[1] + 1 ELSE e[1] - 1

(* slot i meets the player in the pre-move pass *)
PreContact(i) == IsActive(mid[i]) /\ AtPlayer(mid[i][1], mid[i][2])

(* slot i is still occupied after the pre-move pass and meets the player *)
(* after its move                                                        *)
PostContact(i) ==
    /\ IsActive(mid[i])
    /\ ~(PreContact(i) /\ IsTreasure(mid[i]))
    /\ AtPlayer(NextX(mid[i]), mid[i][2])

EnemyContact == \E i \in Slots :
                   ~IsTreasure(mid[i]) /\ (PreContact(i) \/ PostContact(i))

PreTreasure == {i \in Slots : IsTreasure(mid[i]) /\ PreContact(i)}
PostTreasure == {i \in Slots : IsTreasure(mid[i]) /\ PostContact(i)}

(* ======================================================================= *)
(* C1: the done flag a step returns is true exactly when some active     *)
(* non-treasure entity, in any of the 8 slots, is at the player's        *)
(* post-action position in the pre-move pass or in the post-move pass.   *)
C1_DoneIffEnemyContact == Stepped => (out.done <=> EnemyContact)

(* C2: a treasure at the player's post-action position in the pre-move   *)
(* pass counts exactly once in the reward, its slot is inactive in the   *)
(* returned state, and a pickup alone never sets done; one such treasure *)
(* and no enemy contact give reward 1 and done false.                    *)
C2_PreMoveTreasure ==
    Stepped =>
        /\ \A i \in PreTreasure : ~IsActive(state.entities[i])
        /\ out.reward = Cardinality(PreTreasure) + Cardinality(PostTreasure)
        /\ (out.done => EnemyContact)
        /\ (Cardinality(PreTreasure) = 1 /\ ~EnemyContact
               => out.reward = 1 /\ out.done = FALSE)

C2_Witness ==
    /\ Stepped
    /\ Cardinality(PreTreasure) = 1
    /\ ~EnemyContact
    /\ out.reward = 1

(* C3: an active entity whose move takes its x outside 0..9 is inactive  *)
(* in the returned state, so every active entity of a returned state has *)
(* x in 0..9.                                                            *)
C3_RetiredOutsideFrame ==
    Stepped =>
        /\ \A i \in Slots :
              (IsActive(mid[i]) /\ NextX(mid[i]) \notin 0..9)
                  => ~IsActive(state.entities[i])
        /\ \A i \in Slots :
              IsActive(state.entities[i]) => state.entities[i][1] \in 0..9

(* C4: a step that starts with spawn_timer = 0 and whose free-slot scan  *)
(* finds no free slot leaves the entity table as it was after the spawn  *)
(* phase, and still resets spawn_timer to spawn_speed.                   *)
ScanFindsNone(entities) == \A i \in 1..7 : IsActive(entities[i])

C4_SaturatedSpawnKeepsTable ==
    (Stepped /\ prev.spawn_timer = 0 /\ ScanFindsNone(prev.entities))
        => /\ mid = prev.entities
           /\ state.spawn_timer = prev.spawn_speed - 1

(* C5: reset returns the player at (5,5), 8 inactive slots, the timers   *)
(* of the config, ramp_index 0, and an observation whose only true cell  *)
(* is the player channel at the player's position.                       *)
C5_ResetState ==
    out.kind = "reset" =>
        /\ state.player_x = 5 /\ state.player_y = 5
        /\ DOMAIN state.entities = 0..7
        /\ \A i \in 0..7 : ~IsActive(state.entities[i])
        /\ state.spawn_speed = params.init_spawn_speed
        /\ state.spawn_timer = params.init_spawn_speed
        /\ state.move_speed = params.init_move_interval
        /\ state.move_timer = params.init_move_interval
        /\ state.ramp_timer = params.ramp_interval
        /\ state.ramp_index = 0
        /\ GetObs(state) = {<<state.player_y, state.player_x, 0>>}

C5_Witness == out.kind = "reset" /\ state.spawn_timer = 2 /\ budget = MaxSteps

(* C6: in every state reached from reset, by any actions, player_x is in *)
(* 0..9 and player_y in 1..8, and a move against a wall leaves the       *)
(* player on the wall.                                                   *)
C6_PlayerInBounds ==
    /\ state.player_x \in 0..9
    /\ state.player_y \in 1..8
    /\ Stepped =>
          /\ (out.action = 2 /\ prev.player_x = 9 => state.player_x = 9)
          /\ (out.action = 0 /\ prev.player_x = 0 => state.player_x = 0)
          /\ (out.action = 1 /\ prev.player_y = 1 => state.player_y = 1)
          /\ (out.action = 3 /\ prev.player_y = 8 => state.player_y = 8)

C6_Witness ==
    Stepped /\ out.action = 2 /\ prev.player_x = 9 /\ state.player_x = 9

(* C7: an action code outside {0,1,2,3} leaves player_x and player_y as  *)
(* they were; actions 0 and 2 leave player_y, actions 1 and 3 leave      *)
(* player_x.                                                             *)
C7_OtherActionsKeepPosition ==
    Stepped =>
        /\ (out.action \notin {0, 1, 2, 3}
               => /\ state.player_x = prev.player_x
                  /\ state.player_y = prev.player_y)
        /\ (out.action \in {0, 2} => state.player_y = prev.player_y)
        /\ (out.action \in {1, 3} => state.player_x = prev.player_x)

C7_Witness ==
    /\ Stepped
    /\ out.action = -1
    /\ state.player_x = prev.player_x
    /\ state.player_x # 5
    /\ state.player_y # 5

(* C8: the reward of a step is an integer in 0..8, the number of         *)
(* treasure entities picked up in its two passes, each counted once.     *)
PickedUp == {i \in Slots : IsActive(mid[i]) /\ IsTreasure(mid[i])
                           /\ ~IsActive(state.entities[i])}

C8_RewardCountsPickups ==
    Stepped =>
        /\ out.reward \in 0..8
        /\ out.reward = Cardinality(PickedUp)
        /\ PickedUp = PreTreasure \cup PostTreasure

C8_Witness == Stepped /\ out.reward = 1 /\ PostTreasure # {}

(* C10: a call does not change the state value it was given: after the   *)
(* call the caller's argument still holds what was passed in.            *)
C10_ArgumentUnchanged == Stepped => held = prev

(* C11: entities advance only on move ticks: in a step whose move_timer  *)
(* is not 0 when update_entities reads it no active entity's x changes,  *)
(* and in a step whose move_timer is 0 there every active entity's x     *)
(* changes by exactly one cell in its stored direction.                  *)
C11_MoveOnlyOnMoveTick ==
    Stepped =>
        \A i \in Slots :
            (IsActive(mid[i]) /\ IsActive(state.entities[i]))
                => /\ (prev.move_timer # 0
                          => state.entities[i][1] = mid[i][1])
                   /\ (prev.move_timer = 0
                          => state.entities[i][1] = NextX(mid[i]))

(* the spawn phase of the last call wrote one row: all other slots of    *)
(* mid are as in prev, and the written row carries the drawn direction   *)
(* and kind and the row number of its slot                               *)
SpawnCommitted(draw) ==
    \E i \in Slots :
        /\ mid = [prev.entities EXCEPT ![i] = mid[i]]
        /\ mid[i][2] = i + 1
        /\ mid[i][3] = draw.lr
        /\ mid[i][4] = draw.is_gold

(* C12 as stated: a step that starts with spawn_timer > 0 leaves the     *)
(* table unchanged in its spawn phase and ends with spawn_timer one      *)
(* lower; a step that starts with spawn_timer = 0 commits the spawn and  *)
(* ends with spawn_timer = spawn_speed (reset, not decremented).         *)
C12_SpawnGating_AsStated ==
    Stepped =>
        /\ (prev.spawn_timer > 0
               => /\ mid = prev.entities
                  /\ state.spawn_timer = prev.spawn_timer - 1)
        /\ (prev.spawn_timer = 0
               => /\ SpawnCommitted(script.draw)
                  /\ state.spawn_timer = prev.spawn_speed)

(* C12 amended: a step that starts with spawn_timer > 0 leaves the table *)
(* unchanged in its spawn phase and ends with spawn_timer one lower; a   *)
(* step that starts with spawn_timer = 0 commits the spawn, resets       *)
(* spawn_timer to spawn_speed and then decrements it like every step,    *)
(* so it ends at the step's starting spawn_speed minus 1.                *)
C12_SpawnGating ==
    Stepped =>
        /\ (prev.spawn_timer > 0
               => /\ mid = prev.entities
                  /\ state.spawn_timer = prev.spawn_timer - 1)
        /\ (prev.spawn_timer = 0
               => /\ SpawnCommitted(script.draw)
                  /\ state.spawn_timer = prev.spawn_speed - 1)

C12_Witness ==
    /\ Stepped
    /\ prev.spawn_timer = 0
    /\ prev.spawn_speed = 2
    /\ state.spawn_timer = 1
    /\ \E i \in Slots : IsActive(mid[i]) /\ ~IsActive(prev.entities[i])

(* C13: for configs with init_spawn_speed >= 1, init_move_interval >= 1  *)
(* and ramp_interval >= 0, spawn_timer, spawn_speed, move_timer and      *)
(* move_speed are all >= 0 in every state reachable from reset.          *)
C13_TimersNonNegative ==
    (/\ params.init_spawn_speed >= 1
     /\ params.init_move_interval >= 1
     /\ params.ramp_interval >= 0)
        => /\ state.spawn_timer >= 0
           /\ state.spawn_speed >= 0
           /\ state.move_timer >= 0
           /\ state.move_speed >= 0

(* C14: a ramp event happens in a step exactly when ramping is enabled,  *)
(* spawn_speed > 1 or move_speed > 1, and ramp_timer < 0.  On an event   *)
(* ramp_timer becomes ramp_interval, ramp_index grows by 1, spawn_speed  *)
(* drops by 1 iff it was > 1, and move_speed drops by 1 iff it was > 0   *)
(* and the pre-event ramp_index is odd.  On any other step spawn_speed,  *)
(* move_speed and ramp_index are unchanged.                              *)
RampActive ==
    params.ramping # 0 /\ (prev.spawn_speed > 1 \/ prev.move_speed > 1)

(* the ramp reads the timer after the decrement of line 60-61, which     *)
(* leaves ramp_timer alone                                               *)
RampEvent == RampActive /\ prev.ramp_timer < 0

C14_RampRule ==
    Stepped =>
        /\ (state.ramp_index # prev.ramp_index <=> RampEvent)
        /\ (RampEvent
               => /\ state.ramp_timer = params.ramp_interval
                  /\ state.ramp_index = prev.ramp_index + 1
                  /\ state.spawn_speed =
                        prev.spawn_speed - B2I(prev.spawn_speed > 1)
                  /\ state.move_speed =
                        prev.move_speed
                        - B2I(prev.move_speed > 0
                              /\ prev.ramp_index % 2 = 1))
        /\ (~RampEvent
               => /\ state.spawn_speed = prev.spawn_speed
                  /\ state.move_speed = prev.move_speed
                  /\ state.ramp_index = prev.ramp_index)

C14_Witness ==
    /\ Stepped
    /\ RampEvent
    /\ prev.ramp_index % 2 = 1
    /\ state.move_speed = prev.move_speed - 1
    /\ state.spawn_speed = prev.spawn_speed - 1

(* C15: with ramping enabled and steps taken as long as the driver may,  *)
(* spawn_speed and move_speed never increase, eventually both are <= 1   *)
(* and stay so, and in a step that starts with both <= 1 spawn_speed,    *)
(* move_speed and ramp_index do not change.                              *)
AtFloor(st) == st.spawn_speed <= 1 /\ st.move_speed <= 1

C15_RampSettles ==
    /\ [][params.ramping # 0
             => /\ state'.spawn_speed <= state.spawn_speed
                /\ state'.move_speed <= state.move_speed
                /\ (AtFloor(state)
                       => /\ state'.spawn_speed = state.spawn_speed
                          /\ state'.move_speed = state.move_speed
                          /\ state'.ramp_index = state.ramp_index)]_vars
    /\ <>[](params.ramping # 0 => AtFloor(state))

C15_Witness ==
    /\ Stepped
    /\ params.ramping # 0
    /\ params.init_spawn_speed = 5
    /\ params.init_move_interval = 2
    /\ AtFloor(prev)
    /\ AtFloor(state)
    /\ state.ramp_index = prev.ramp_index

(* slot i was written by the spawn phase of the last call *)
Written(i) == Stepped /\ prev.spawn_timer = 0 /\ mid[i] # prev.entities[i]

(* slot i holds an entity the spawn phase of the last call made active *)
Fresh(i) ==
    /\ Stepped
    /\ prev.spawn_timer = 0
    /\ ~IsActive(prev.entities[i])
    /\ IsActive(mid[i])

(* C16 as stated: a newly committed entity is active; with direction bit *)
(* 1 (left) it starts at x = 9 and its x decreases when it moves, with   *)
(* bit 0 (right) it starts at x = 0 and its x increases.                 *)
C16_FreshEntity_AsStated ==
    \A i \in Slots :
        Written(i)
            => /\ IsActive(mid[i])
               /\ (mid[i][3] = 1
                      => /\ mid[i][1] = 9
                         /\ (IsActive(state.entities[i])
                                => state.entities[i][1] = 8))
               /\ (mid[i][3] = 0
                      => /\ mid[i][1] = 0
                         /\ (IsActive(state.entities[i])
                                => state.entities[i][1] = 1))

(* C16 amended: a spawn phase that starts with spawn_timer = 0 and a     *)
(* free slot among 1..7 makes one slot active; an entity made active by  *)
(* the spawn phase starts at x = 9 when its direction bit is 0, and then *)
(* moves left (x decreases), and at x = 0 when the bit is 1, and then    *)
(* moves right (x increases); so its first move keeps it on the board.   *)
C16_FreshEntity ==
    /\ (Stepped /\ prev.spawn_timer = 0 /\ ~ScanFindsNone(prev.entities))
          => Cardinality({i \in Slots : Fresh(i)}) = 1
    /\ \A i \in Slots :
          Fresh(i)
              => /\ mid[i][3] \in {0, 1}
                 /\ (mid[i][3] = 0
                        => /\ mid[i][1] = 9
                           /\ (IsActive(state.entities[i])
                                  => state.entities[i][1] = 8))
                 /\ (mid[i][3] = 1
                        => /\ mid[i][1] = 0
                           /\ (IsActive(state.entities[i])
                                  => state.entities[i][1] = 1))

C16_Witness ==
    \E i \in Slots :
        /\ Fresh(i)
        /\ mid[i][3] = 1
        /\ mid[i][1] = 0
        /\ state.entities[i][1] = 1
        /\ \E k \in Slots : k # i /\ IsActive(prev.entities[k])

(* the first 7 entries of the drawn permutation whose slot is inactive,  *)
(* as positions 1..7 of the tuple                                        *)
FreeInOrder(order, entities) ==
    {k \in 1..7 : ~IsActive(entities[order[k]])}

FirstOf(S) == CHOOSE k \in S : \A m \in S : k <= m

(* C17: the slot a spawn chooses is the first inactive slot, in the      *)
(* order of the drawn permutation, among the permutation's first 7       *)
(* entries; the spawn fails, leaving the table as it was, exactly when   *)
(* all 7 of those slots are active.                                      *)
C17_SlotFollowsPermutation ==
    (Stepped /\ prev.spawn_timer = 0)
        => LET free == FreeInOrder(script.draw.order, prev.entities)
           IN IF free = {}
              THEN mid = prev.entities
              ELSE /\ Fresh(script.draw.order[FirstOf(free)])
                   /\ Cardinality({i \in Slots : Written(i)}) = 1

(* the reference rendering of a state, as a set of true cells *)
Cells == (0..GridMax) \X (0..GridMax)

TrailX(e) == IF e[3] = 1 THEN e[1] - 1 ELSE e[1] + 1

RefObs(st) ==
    {<<st.player_y, st.player_x, 0>>}
    \cup {<<rc[1], rc[2], 1>> : rc \in
            {q \in Cells : \E i \in Slots :
                /\ IsActive(st.entities[i]) /\ ~IsTreasure(st.entities[i])
                /\ st.entities[i][2] = q[1] /\ st.entities[i][1] = q[2]}}
    \cup {<<rc[1], rc[2], 3>> : rc \in
            {q \in Cells : \E i \in Slots :
                /\ IsActive(st.entities[i]) /\ IsTreasure(st.entities[i])
                /\ st.entities[i][2] = q[1] /\ st.entities[i][1] = q[2]}}
    \cup {<<rc[1], rc[2], 2>> : rc \in
            {q \in Cells : \E i \in Slots :
                /\ IsActive(st.entities[i])
                /\ st.entities[i][2] = q[1]
                /\ TrailX(st.entities[i]) = q[2]}}

(* C18: in every reachable state the observation is the reference       *)
(* rendering: the player channel is true only at the player; the enemy   *)
(* (treasure) channel at (row, col) iff an active non-treasure           *)
(* (treasure) entity has y = row and x = col; the trail channel at       *)
(* (row, col) iff an active entity has y = row and trailing column col   *)
(* in 0..9; inactive slots give no true cell.                            *)
C18_ObsIsReference == GetObs(state) = RefObs(state)

(* C19: every active entity, of the returned state and of the table the  *)
(* spawn phase left, sits in a slot i in 1..7 with y = i + 1, and keeps  *)
(* its y while it is active; so slot 0 is never active, at most 7        *)
(* entities are active, no two active entities share a row, no entity is *)
(* in row 0 or 1, and at most one entity meets the player in a step.     *)
ActiveSlots(entities) == {i \in Slots : IsActive(entities[i])}

RowsOk(entities) ==
    /\ \A i \in ActiveSlots(entities) : i \in 1..7 /\ entities[i][2] = i + 1
    /\ ~IsActive(entities[0])
    /\ Cardinality(ActiveSlots(entities)) <= 7
    /\ \A i, k \in ActiveSlots(entities) :
          entities[i][2] = entities[k][2] => i = k
    /\ \A i \in ActiveSlots(entities) : entities[i][2] \notin {0, 1}

C20_ActiveStaysByGrid ==
    \A i \in Slots :
        IsActive(state.entities[i])
            => state.entities[i][1] \in (0 - 1)..(GridMax + 1)

====
